---- MODULE Spec2Model ----
(***************************************************************************)
(* A model of the AI web content analyzer: the Streamlit session script    *)
(* (src/main.py), the Selenium scraper and the text cleaner                 *)
(* (src/scrape.py) and the Gemini content analyzer with its retry loop      *)
(* (src/parse.py).                                                          *)
(*                                                                         *)
(* Strings are sequences of one-character strings.  A message whose exact  *)
(* wording does not matter is the warning marker followed by one element    *)
(* naming the message.  Markup is represented by its parse tree: the        *)
(* BeautifulSoup parser and serializer are outside the repository.          *)
(***************************************************************************)
EXTENDS Integers, Sequences, FiniteSets, TLC

\* ------------------------------------------------------------------ bounds

\* The character budget of parse.py:17 is 700 * 1000; strings of that length
\* cannot be enumerated, so the model runs with a budget of MaxContentScaled
\* characters and content strings shorter than, equal to and longer than it.
MaxContentScaled == 3
MAX_CONTENT_LENGTH == MaxContentScaled

\* Largest max_retries a directly constructed ContentAnalyzer is given.
MaxRetriesBound == 3
\* Number of queries one session submits between two loads.
MaxQueries == 2

DEFAULT_MAX_RETRIES == 3
DEFAULT_RETRY_DELAY == 5
\* Retry delays given to a directly constructed ContentAnalyzer.
RetryDelays == {1, DEFAULT_RETRY_DELAY}

\* ------------------------------------------------------------------ strings

\* The two code points of the warning marker, U+26A0 U+FE0F.
Marker == <<"U26A0", "UFE0F">>
Whitespace == {" ", "\n", "\t"}

Min(a, b) == IF a < b THEN a ELSE b

StartsWith(s, prefix) ==
    /\ Len(s) >= Len(prefix)
    /\ SubSeq(s, 1, Len(prefix)) = prefix

RECURSIVE LStrip(_)
LStrip(s) ==
    IF s = <<>> THEN s
    ELSE IF Head(s) \in Whitespace THEN LStrip(Tail(s)) ELSE s

RECURSIVE RStrip(_)
RStrip(s) ==
    IF s = <<>> THEN s
    ELSE IF s[Len(s)] \in Whitespace THEN RStrip(SubSeq(s, 1, Len(s) - 1)) ELSE s

\* str.strip()
Strip(s) == RStrip(LStrip(s))

\* content[:n]
Slice(s, n) == SubSeq(s, 1, Min(Len(s), n))

\* A marker-tagged message.
Msg(name) == Marker \o <<name>>

\* Optional[str]
PyNone == [none |-> TRUE, str |-> <<>>]
PyStr(s) == [none |-> FALSE, str |-> s]
Truthy(v) == ~v.none /\ v.str # <<>>

\* ------------------------------------------------------------------ parse.py

\* The environment ContentAnalyzer() is constructed in.
Envs == [dns : BOOLEAN, key : {"absent", "empty", "set"}, model : BOOLEAN]

\* InitializeModel without the check of the credential.
InitializeModel_NoKeyCheck(e) ==
    IF ~e.dns THEN "RuntimeError: DNS resolution failed"
    ELSE IF ~e.model THEN "RuntimeError: Model init failed"
    ELSE "ok"

\* ContentAnalyzer._initialize_model: the error it raises, or "ok".
InitializeModel(e) ==
    IF ~e.dns THEN "RuntimeError: DNS resolution failed"
    ELSE IF e.key # "set" THEN "ValueError: GOOGLE_API_KEY missing"
    ELSE IF ~e.model THEN "RuntimeError: Model init failed"
    ELSE "ok"

\* google.api_core exception classes and their bases, as the except clauses
\* of _process_full_content tell them apart.
ExcBases ==
    [ResourceExhausted |-> {"ResourceExhausted", "GoogleAPIError", "Exception"},
     DeadlineExceeded  |-> {"DeadlineExceeded", "GoogleAPIError", "Exception"},
     ServiceUnavailable |-> {"ServiceUnavailable", "GoogleAPIError", "Exception"},
     InvalidArgument   |-> {"InvalidArgument", "GoogleAPIError", "Exception"},
     ValueError        |-> {"ValueError", "Exception"}]
IsInstance(exc, cls) == cls \in ExcBases[exc]

\* What one generate_content call can do: return a response (with its text
\* and the block reason of its prompt feedback), return nothing, or raise.
Response(text, block) == [kind |-> "response", text |-> text, block |-> block, exc |-> "-"]
NoResponse == [kind |-> "none", text |-> <<>>, block |-> "absent", exc |-> "-"]
Raise(exc) == [kind |-> "raise", text |-> <<>>, block |-> "absent", exc |-> exc]

ResponseTexts == {<<"a">>, <<" ", "a", "\n">>, <<" ">>, Marker \o <<"a">>}
Outcomes ==
    {Response(t, "none") : t \in ResponseTexts}
    \cup {Response(<<"a">>, "SAFETY"), Response(<<>>, "none"),
          Response(<<>>, "absent"), Response(<<>>, "SAFETY"), NoResponse}
    \cup {Raise(x) : x \in DOMAIN ExcBases}

Return(v) == [act |-> "return", value |-> v]
Retry == [act |-> "retry", value |-> PyNone]

\* ProcessAttempt with the GoogleAPIError clause ahead of its subclasses.
ProcessAttempt_ApiErrorFirst(o) ==
    IF o.kind = "raise" THEN
        IF IsInstance(o.exc, "GoogleAPIError")
            THEN Return(PyStr(Msg("API Error")))
        ELSE Retry
    ELSE IF o.kind = "response" /\ o.text # <<>> THEN Return(PyStr(Strip(o.text)))
    ELSE IF o.kind = "response" /\ o.block \notin {"absent", "none"}
        THEN Return(PyStr(Msg("Error: Content generation blocked")))
    ELSE Retry

\* ProcessAttempt without the ResourceExhausted clause and with a blocked
\* response treated as an empty one.
ProcessAttempt_RetryCategorical(o) ==
    IF o.kind = "raise" THEN
        IF IsInstance(o.exc, "DeadlineExceeded") THEN Retry
        ELSE IF IsInstance(o.exc, "ServiceUnavailable") THEN Retry
        ELSE IF IsInstance(o.exc, "ResourceExhausted") THEN Retry
        ELSE IF IsInstance(o.exc, "GoogleAPIError")
            THEN Return(PyStr(Msg("API Error")))
        ELSE Retry
    ELSE IF o.kind = "response" /\ o.text # <<>> THEN Return(PyStr(Strip(o.text)))
    ELSE Retry

\* One iteration's try block and except clauses: return a value, or fall
\* through to the retry logic.
ProcessAttempt(o) ==
    IF o.kind = "raise" THEN
        IF IsInstance(o.exc, "ResourceExhausted")
            THEN Return(PyStr(Msg("API Error: Resource limits exceeded")))
        ELSE IF IsInstance(o.exc, "DeadlineExceeded") THEN Retry
        ELSE IF IsInstance(o.exc, "ServiceUnavailable") THEN Retry
        ELSE IF IsInstance(o.exc, "GoogleAPIError")
            THEN Return(PyStr(Msg("API Error")))
        ELSE Retry
    ELSE IF o.kind = "response" /\ o.text # <<>> THEN Return(PyStr(Strip(o.text)))
    ELSE IF o.kind = "response" /\ o.block \notin {"absent", "none"}
        THEN Return(PyStr(Msg("Error: Content generation blocked")))
    ELSE Retry

\* IsLastAttempt that allows one attempt more.
IsLastAttempt_OneMore(attempt, max_retries) == ~(attempt < max_retries)

\* The retry logic that ends an iteration.
IsLastAttempt(attempt, max_retries) == ~(attempt < max_retries - 1)

\* SleepTime without the exponential factor.
SleepTime_Constant(retry_delay, attempt) == retry_delay

\* sleep_time
SleepTime(retry_delay, attempt) == retry_delay * (2 ^ attempt)

\* AnalyzeResult without the check of lines 74-79.
AnalyzeResult_PassThrough(response_text) == response_text.str

\* analyze_content's use of what _process_full_content returned.
AnalyzeResult(response_text) ==
    IF Truthy(response_text) THEN response_text.str
    ELSE Msg("Analysis failed after multiple retries or returned no relevant content.")

\* Truncate with a slice one character short.
Truncate_OffByOne(content) ==
    IF Len(content) > MAX_CONTENT_LENGTH THEN Slice(content, MAX_CONTENT_LENGTH - 1)
    ELSE content

\* content as _process_full_content puts it in the prompt
Truncate(content) ==
    IF Len(content) > MAX_CONTENT_LENGTH THEN Slice(content, MAX_CONTENT_LENGTH)
    ELSE content

Label(i) == IF i % 2 = 0 THEN "User" ELSE "Assistant"

\* history[-4:]
LastFour(history) ==
    IF Len(history) > 4 THEN SubSeq(history, Len(history) - 3, Len(history))
    ELSE history

\* _build_prompt: the parts of the template that vary.
BuildPrompt(content, query, history) ==
    [content |-> content,
     query |-> query,
     context |-> [i \in 1..Len(LastFour(history)) |->
                    [label |-> Label(i - 1), msg |-> LastFour(history)[i]]]]

\* ------------------------------------------------------------------ scrape.py

\* Markup as a forest of nodes; the empty forest is the empty string.
Text(s) == [tag |-> "#text", text |-> s, kids |-> <<>>]
El(tag, kids) == [tag |-> tag, text |-> <<>>, kids |-> kids]

Denylist == {"script", "style", "meta", "link", "header", "footer", "nav",
             "aside", "form", "button", "iframe", "noscript"}

\* soup.body: the first body element in document order, as a forest.
RECURSIVE FindBody(_)
FindBody(forest) ==
    IF forest = <<>> THEN <<>>
    ELSE IF Head(forest).tag = "body" THEN <<Head(forest)>>
    ELSE IF FindBody(Head(forest).kids) # <<>> THEN FindBody(Head(forest).kids)
    ELSE FindBody(Tail(forest))

extract_body_content(html) == IF html = <<>> THEN <<>> ELSE FindBody(html)

\* Decompose that removes the denylisted elements of the top level only.
RECURSIVE Decompose_TopLevelOnly(_)
Decompose_TopLevelOnly(forest) ==
    IF forest = <<>> THEN <<>>
    ELSE IF Head(forest).tag \in Denylist THEN Decompose_TopLevelOnly(Tail(forest))
    ELSE <<Head(forest)>> \o Decompose_TopLevelOnly(Tail(forest))

\* tag.decompose() for every element whose tag is in the denylist
RECURSIVE Decompose(_)
Decompose(forest) ==
    IF forest = <<>> THEN <<>>
    ELSE IF Head(forest).tag \in Denylist THEN Decompose(Tail(forest))
    ELSE <<[Head(forest) EXCEPT !.kids = Decompose(Head(forest).kids)]>>
         \o Decompose(Tail(forest))

\* The text nodes of a forest in document order.
RECURSIVE Strings(_)
Strings(forest) ==
    IF forest = <<>> THEN <<>>
    ELSE (IF Head(forest).tag = "#text" THEN <<Head(forest).text>>
          ELSE Strings(Head(forest).kids))
         \o Strings(Tail(forest))

RECURSIVE Join(_, _)
Join(strs, sep) ==
    IF strs = <<>> THEN <<>>
    ELSE IF Len(strs) = 1 THEN Head(strs)
    ELSE Head(strs) \o sep \o Join(Tail(strs), sep)

RECURSIVE StripEach(_)
StripEach(strs) ==
    IF strs = <<>> THEN <<>>
    ELSE (IF Strip(Head(strs)) = <<>> THEN <<>> ELSE <<Strip(Head(strs))>>)
         \o StripEach(Tail(strs))

\* soup.get_text(separator='\n', strip=True)
GetText(forest) == Join(StripEach(Strings(forest)), <<"\n">>)

\* str.splitlines(), "\n" being the only line boundary of the alphabet
RECURSIVE SplitFrom(_, _)
SplitFrom(s, line) ==
    IF s = <<>> THEN (IF line = <<>> THEN <<>> ELSE <<line>>)
    ELSE IF Head(s) = "\n" THEN <<line>> \o SplitFrom(Tail(s), <<>>)
    ELSE SplitFrom(Tail(s), Append(line, Head(s)))
SplitLines(s) == SplitFrom(s, <<>>)

\* NonBlank with the condition inverted.
RECURSIVE NonBlank_Inverted(_)
NonBlank_Inverted(lines) ==
    IF lines = <<>> THEN <<>>
    ELSE (IF Strip(Head(lines)) # <<>> THEN <<>> ELSE <<Head(lines)>>)
         \o NonBlank_Inverted(Tail(lines))

RECURSIVE NonBlank(_)
NonBlank(lines) ==
    IF lines = <<>> THEN <<>>
    ELSE (IF Strip(Head(lines)) = <<>> THEN <<>> ELSE <<Head(lines)>>)
         \o NonBlank(Tail(lines))

clean_body_content(body_html) ==
    IF body_html = <<>> THEN <<>>
    ELSE Join(NonBlank(SplitLines(GetText(Decompose(body_html)))), <<"\n">>)

\* BeautifulSoup(body_html, 'html.parser') of a string.  A start tag, an
\* end tag or a character reference in the string is one element of the
\* sequence; every other element is a character.
OpenTags == [i \in {"<nav>", "<b>"} |-> IF i = "<nav>" THEN "nav" ELSE "b"]
CloseTags == [i \in {"</nav>", "</b>"} |-> IF i = "</nav>" THEN "nav" ELSE "b"]
CharRefs == [i \in {"&lt;"} |-> "<"]

\* The open elements, innermost last; the first frame is the document.
Frame(tag, kids) == [tag |-> tag, kids |-> kids]
IsOpen(stack, tag) == \E i \in 2..Len(stack) : stack[i].tag = tag

\* The innermost open element is closed: it becomes the last child of
\* the element that contains it.
CloseTop(stack) ==
    LET n == Len(stack)
    IN  Append(SubSeq(stack, 1, n - 2),
               Frame(stack[n - 1].tag,
                     Append(stack[n - 1].kids, El(stack[n].tag, stack[n].kids))))

\* A character is appended to the text node that ends the innermost open
\* element, or begins a text node.
AddChar(stack, c) ==
    LET n == Len(stack)
        kids == stack[n].kids
        k == Len(kids)
    IN  IF k > 0 /\ kids[k].tag = "#text"
          THEN [stack EXCEPT ![n].kids[k].text = Append(kids[k].text, c)]
          ELSE [stack EXCEPT ![n].kids = Append(kids, Text(<<c>>))]

RECURSIVE CloseUntil(_, _)
CloseUntil(stack, tag) ==
    IF stack[Len(stack)].tag = tag THEN CloseTop(stack)
    ELSE CloseUntil(CloseTop(stack), tag)

RECURSIVE CloseAll(_)
CloseAll(stack) == IF Len(stack) = 1 THEN stack[1].kids ELSE CloseAll(CloseTop(stack))

RECURSIVE ParseFrom(_, _)
ParseFrom(s, stack) ==
    IF s = <<>> THEN CloseAll(stack)
    ELSE IF Head(s) \in DOMAIN OpenTags
        THEN ParseFrom(Tail(s), Append(stack, Frame(OpenTags[Head(s)], <<>>)))
    ELSE IF Head(s) \in DOMAIN CloseTags
        THEN IF IsOpen(stack, CloseTags[Head(s)])
               THEN ParseFrom(Tail(s), CloseUntil(stack, CloseTags[Head(s)]))
               ELSE ParseFrom(Tail(s), stack)
    ELSE IF Head(s) \in DOMAIN CharRefs
        THEN ParseFrom(Tail(s), AddChar(stack, CharRefs[Head(s)]))
    ELSE ParseFrom(Tail(s), AddChar(stack, Head(s)))

ParseText(s) == ParseFrom(s, <<Frame("#document", <<>>)>>)

\* ------------------------------------------------------------------ main.py

\* ValidUrl that accepts every non-empty URL.
ValidUrl_AnyNonEmpty(url) == url # <<>>

\* str.startswith(('http://', 'https://')), a URL being a sequence of pieces
ValidUrl(url) ==
    url # <<>> /\ (StartsWith(url, <<"http://">>) \/ StartsWith(url, <<"https://">>))

RECURSIVE SelectContents(_, _)
SelectContents(history, user) ==
    IF history = <<>> THEN <<>>
    ELSE (IF (Head(history).role = "user") = user THEN <<Head(history).content>> ELSE <<>>)
         \o SelectContents(Tail(history), user)

\* history_for_model: the assistant messages, then the user messages but the last
HistoryForModel(history) ==
    SelectContents(history, FALSE)
    \o SubSeq(SelectContents(history, TRUE), 1, Len(SelectContents(history, TRUE)) - 1)

\* ChatInputDisabled without the check of the content.
ChatInputDisabled_IgnoresContent(initialized, content) == ~initialized

\* chat_input_disabled
ChatInputDisabled(initialized, content) == ~initialized \/ content = <<>>

\* ------------------------------------------------------------------ state

VARIABLES
    chat_history,           \* st.session_state.chat_history
    dom_content,            \* st.session_state.dom_content
    website_url,            \* st.session_state.website_url
    env,                    \* the environment of the current script run
    ANALYZER_INITIALIZED,   \* main.py's flag of the current script run
    analyzer,               \* the ContentAnalyzer: max_retries, retry_delay
    shown,                  \* the notices the current script run displayed
    event,                  \* the widget the current script run handles
    pc,                     \* the position of the single thread of control
    driver,                 \* the browser of the current scrape_website call
    scraped,                \* what scrape_website returned or raised
    call,                   \* the arguments of the current analyze_content call
    prompt,                 \* the prompt _process_full_content built
    attempt,                \* the loop variable of _process_full_content
    requests,               \* the generate_content calls of this call, in order
    sleeps,                 \* the time.sleep calls of this call, in order
    result,                 \* what analyze_content returned or raised
    caller,                 \* who called analyze_content
    cleaning                \* a clean_body_content call: its argument and results

session == <<chat_history, dom_content, website_url>>
run == <<env, ANALYZER_INITIALIZED, analyzer, shown, event>>
scraper == <<driver, scraped>>
analysis == <<call, prompt, attempt, requests, sleeps, result>>
vars == <<session, run, scraper, analysis, pc, caller, cleaning>>

NoAnalyzer == [max_retries |-> -1, retry_delay |-> -1]
NoCall == [full_content |-> <<>>, query |-> <<>>, chat_history |-> <<>>]
NoPrompt == BuildPrompt(<<>>, <<>>, <<>>)
NoResult == [raised |-> FALSE, value |-> <<"-">>]
NoScrape == [raised |-> FALSE, html |-> <<>>]
OkEnv == [dns |-> TRUE, key |-> "set", model |-> TRUE]
NoCleaning == [body_html |-> <<>>, text |-> <<>>, again |-> <<>>]

\* ------------------------------------------------------------------ inputs

Urls == {<<>>, <<"ftp://", "a">>, <<"http://", "a">>, <<"https://", "b">>}
UserQueries == {<<"q">>, <<"r">>}

\* <body><nav>m</nav><p>a <b>b</b></p></body>
PageHello ==
    <<El("html", <<El("head", <<El("title", <<Text(<<"t">>)>>)>>),
                   El("body", <<El("nav", <<Text(<<"m">>)>>),
                                El("p", <<Text(<<"a", " ">>),
                                          El("b", <<Text(<<"b">>)>>)>>)>>)>>)>>
PageLong ==
    <<El("html", <<El("body", <<El("p", <<Text(<<"a", "\n", " ", "\n", "b">>)>>),
                                Text(<<" ", "\n">>),
                                El("div", <<El("script", <<Text(<<"x">>)>>),
                                            Text(<<" ", "c", "\n">>),
                                            El("p", <<Text(<<"d">>)>>)>>)>>)>>)>>
PageScript == <<El("html", <<El("body", <<El("script", <<Text(<<"x">>)>>)>>)>>)>>
PageNoBody == <<El("html", <<El("head", <<>>)>>)>>
Pages == {PageHello, PageLong, PageScript, PageNoBody, <<>>}

\* Arguments of a direct analyze_content call.
Contents == {<<>>, <<"a", "b">>, <<"a", "b", "c">>, <<"a", "b", "c", "d">>,
             <<"a", "b", "c", "d", "e">>}
Queries == {<<>>, <<"q">>}
Histories == {<<>>, << <<"q">>, <<"a">> >>}

\* ------------------------------------------------------------------ parse.py

\* analyze_content returns: the except clause of lines 81-83 turns an
\* exception of _process_full_content into a tagged string.
AnalyzeContentReturn(p) ==
    IF p.act = "raise"
        THEN [raised |-> FALSE, value |-> Msg("Critical Error during analysis")]
    ELSE [raised |-> FALSE, value |-> AnalyzeResult(p.value)]

\* PreconditionError with the query checked first.
PreconditionError_QueryFirst(full_content, query) ==
    IF query = <<>> THEN Msg("Error: Query cannot be empty.")
    ELSE IF full_content = <<>>
        THEN Msg("Error: No website content loaded or content is empty.")
    ELSE <<>>

\* The precondition checks of analyze_content: the tagged string they
\* return, or the empty string when both arguments pass.
PreconditionError(full_content, query) ==
    IF full_content = <<>>
        THEN Msg("Error: No website content loaded or content is empty.")
    ELSE IF query = <<>> THEN Msg("Error: Query cannot be empty.")
    ELSE <<>>

\* analyze_content up to the first request: the precondition checks, the
\* truncation, the prompt, and a loop that has no iteration.
AnalyzeContent ==
    /\ pc = "analyze"
    /\ requests' = <<>>
    /\ sleeps' = <<>>
    /\ attempt' = 0
    /\ IF PreconditionError(call.full_content, call.query) # <<>> THEN
            /\ result' = [raised |-> FALSE,
                          value |-> PreconditionError(call.full_content, call.query)]
            /\ pc' = "returned"
            /\ UNCHANGED prompt
       ELSE
            /\ prompt' = BuildPrompt(Truncate(call.full_content), call.query,
                                     call.chat_history)
            /\ IF analyzer.max_retries <= 0
                 THEN /\ result' = AnalyzeContentReturn(Return(PyNone))
                      /\ pc' = "returned"
                 ELSE /\ pc' = "request"
                      /\ UNCHANGED result
    /\ UNCHANGED <<session, run, scraper, call, caller, cleaning>>

\* One iteration of the retry loop up to its sleep: the request, the
\* response or exception, and the retry logic's decision.
GenerateContent(o) ==
    /\ pc = "request"
    /\ requests' = Append(requests, [prompt |-> prompt, outcome |-> o])
    /\ IF ProcessAttempt(o).act # "retry" THEN
            /\ result' = AnalyzeContentReturn(ProcessAttempt(o))
            /\ pc' = "returned"
       ELSE IF IsLastAttempt(attempt, analyzer.max_retries) THEN
            /\ result' = AnalyzeContentReturn(Return(PyNone))
            /\ pc' = "returned"
       ELSE
            /\ pc' = "sleep"
            /\ UNCHANGED result
    /\ UNCHANGED <<session, run, scraper, call, prompt, attempt, sleeps, caller, cleaning>>

\* time.sleep(sleep_time) and the next iteration
Sleep ==
    /\ pc = "sleep"
    /\ sleeps' = Append(sleeps, SleepTime(analyzer.retry_delay, attempt))
    /\ attempt' = attempt + 1
    /\ pc' = "request"
    /\ UNCHANGED <<session, run, scraper, call, prompt, requests, result, caller, cleaning>>

Analyze == AnalyzeContent \/ (\E o \in Outcomes : GenerateContent(o)) \/ Sleep

\* A ContentAnalyzer constructed with any max_retries and retry_delay, and
\* one analyze_content call with any arguments.
InitAnalyze ==
    /\ chat_history = <<>>
    /\ dom_content = <<>>
    /\ website_url = <<>>
    /\ env = OkEnv
    /\ ANALYZER_INITIALIZED = TRUE
    /\ analyzer \in [max_retries : 0..MaxRetriesBound, retry_delay : RetryDelays]
    /\ shown = {}
    /\ event = "none"
    /\ pc = "analyze"
    /\ driver = "none"
    /\ scraped = NoScrape
    /\ call \in [full_content : Contents, query : Queries, chat_history : Histories]
    /\ prompt = NoPrompt
    /\ attempt = 0
    /\ requests = <<>>
    /\ sleeps = <<>>
    /\ result = NoResult
    /\ caller = "direct"
    /\ cleaning = NoCleaning

SpecAnalyze == InitAnalyze /\ [][Analyze]_vars

\* ------------------------------------------------------------------ scrape.py

\* scrape_website, lines 20-28: Chrome(...) and set_page_load_timeout(30)
\* in one try block whose except clause raises RuntimeError.
StartOutcomes == {"ok", "launch_failed", "timeout_failed"}
StartDriver(o) ==
    IF o = "ok" THEN [driver |-> "running", raised |-> FALSE]
    ELSE IF o = "launch_failed" THEN [driver |-> "none", raised |-> TRUE]
    ELSE [driver |-> "running", raised |-> TRUE]

\* scrape_website, lines 30-43: get, the settle sleep, page_source, and
\* the finally clause.
FetchOutcomes == {"get_failed", "source_failed"}
FetchPage(o) ==
    [driver |-> "quit",
     scraped |-> IF o \in FetchOutcomes THEN [raised |-> TRUE, html |-> <<>>]
                 ELSE [raised |-> FALSE, html |-> o]]

\* ------------------------------------------------------------------ main.py

\* st.error, st.warning, st.success
Notice(level, text, detail) == [level |-> level, text |-> text, detail |-> detail]

DefaultAnalyzer ==
    [max_retries |-> DEFAULT_MAX_RETRIES, retry_delay |-> DEFAULT_RETRY_DELAY]

CountUser(history) == Len(SelectContents(history, TRUE))

\* A script run up to the widgets: the script starts afresh (the locals of
\* the previous run are gone), the analyzer is constructed, and a failure
\* is displayed.
ScriptRun(e) ==
    /\ pc = "rerun"
    /\ env' = e
    /\ ANALYZER_INITIALIZED' = (InitializeModel(e) = "ok")
    /\ analyzer' = IF InitializeModel(e) = "ok" THEN DefaultAnalyzer ELSE NoAnalyzer
    /\ shown' = IF InitializeModel(e) = "ok" THEN {}
                ELSE {Notice("error", "Fatal Error: Could not initialize the AI Analyzer",
                             InitializeModel(e))}
    /\ event' = "none"
    /\ driver' = "none"
    /\ scraped' = NoScrape
    /\ call' = NoCall
    /\ prompt' = NoPrompt
    /\ attempt' = 0
    /\ requests' = <<>>
    /\ sleeps' = <<>>
    /\ result' = NoResult
    /\ pc' = "widgets"
    /\ UNCHANGED <<session, caller, cleaning>>

\* The run that an edit of the URL text input triggers.
UrlInput(u) ==
    /\ pc = "widgets"
    /\ u # website_url
    /\ website_url' = u
    /\ event' = "url"
    /\ pc' = "rerun"
    /\ UNCHANGED <<chat_history, dom_content, env, ANALYZER_INITIALIZED, analyzer,
                   shown, scraper, analysis, caller, cleaning>>

\* The load button pressed with a URL the handler rejects.
LoadRejected ==
    /\ pc = "widgets"
    /\ ANALYZER_INITIALIZED
    /\ ~ValidUrl(website_url)
    /\ shown' = shown \cup
         {IF website_url = <<>> THEN Notice("warning", "Please enter a URL.", "")
          ELSE Notice("warning", "Please enter a valid URL starting with http:// or https://", "")}
    /\ event' = "load"
    /\ pc' = "rerun"
    /\ UNCHANGED <<session, env, ANALYZER_INITIALIZED, analyzer, scraper, analysis, caller, cleaning>>

\* LoadClick without lines 54-55.
LoadClick_KeepsState ==
    /\ pc = "widgets"
    /\ ANALYZER_INITIALIZED
    /\ ValidUrl(website_url)
    /\ event' = "load"
    /\ driver' = "none"
    /\ scraped' = NoScrape
    /\ pc' = "chrome"
    /\ UNCHANGED <<session, env, ANALYZER_INITIALIZED, analyzer, shown, analysis, caller, cleaning>>

\* The load button pressed with a valid URL: content and history are
\* cleared and scrape_website is entered.
LoadClick ==
    /\ pc = "widgets"
    /\ ANALYZER_INITIALIZED
    /\ ValidUrl(website_url)
    /\ dom_content' = <<>>
    /\ chat_history' = <<>>
    /\ event' = "load"
    /\ driver' = "none"
    /\ scraped' = NoScrape
    /\ pc' = "chrome"
    /\ UNCHANGED <<website_url, env, ANALYZER_INITIALIZED, analyzer, shown, analysis, caller, cleaning>>

ChromeStart(o) ==
    /\ pc = "chrome"
    /\ driver' = StartDriver(o).driver
    /\ IF StartDriver(o).raised
         THEN /\ scraped' = [raised |-> TRUE, html |-> <<>>]
              /\ pc' = "scraped"
         ELSE /\ pc' = "get"
              /\ UNCHANGED scraped
    /\ UNCHANGED <<session, run, analysis, caller, cleaning>>

ScrapePage(o) ==
    /\ pc = "get"
    /\ driver' = FetchPage(o).driver
    /\ scraped' = FetchPage(o).scraped
    /\ pc' = "scraped"
    /\ UNCHANGED <<session, run, analysis, caller, cleaning>>

\* The rest of the load handler: body extraction and cleaning, or the
\* except clauses.
LoadFinish ==
    /\ pc = "scraped"
    /\ IF scraped.raised THEN
            /\ shown' = shown \cup {Notice("error", "Scraping Error", "")}
            /\ UNCHANGED dom_content
       ELSE
            /\ dom_content' = clean_body_content(extract_body_content(scraped.html))
            /\ shown' = shown \cup
                 {IF dom_content' # <<>>
                    THEN Notice("success", "Website content loaded and cleaned!", "")
                  ELSE Notice("warning", "Content loaded, but it appears empty after cleaning.", "")}
    /\ pc' = "rerun"
    /\ UNCHANGED <<chat_history, website_url, env, ANALYZER_INITIALIZED, analyzer, event,
                   scraper, analysis, caller, cleaning>>

\* A query submitted in the chat input: the user entry is appended and
\* analyze_content is called.
ChatSubmit(q) ==
    /\ pc = "widgets"
    /\ ~ChatInputDisabled(ANALYZER_INITIALIZED, dom_content)
    /\ CountUser(chat_history) < MaxQueries
    /\ chat_history' = Append(chat_history, [role |-> "user", content |-> q])
    /\ call' = [full_content |-> dom_content, query |-> q,
                chat_history |-> HistoryForModel(chat_history')]
    /\ caller' = "main"
    /\ event' = "query"
    /\ pc' = "analyze"
    /\ UNCHANGED <<dom_content, website_url, env, ANALYZER_INITIALIZED, analyzer, shown,
                   scraper, prompt, attempt, requests, sleeps, result, cleaning>>

\* The response displayed: an error notice, or the assistant entry.
IsErrorResponse(response) == StartsWith(response, Marker)

ChatFinish ==
    /\ pc = "returned"
    /\ caller = "main"
    /\ IF result.raised THEN
            /\ shown' = shown \cup
                 {Notice("error", "An unexpected error occurred during analysis", "")}
            /\ UNCHANGED chat_history
       ELSE IF IsErrorResponse(result.value) THEN
            /\ shown' = shown \cup {Notice("error", "analysis", "")}
            /\ UNCHANGED chat_history
       ELSE
            /\ chat_history' = Append(chat_history,
                                      [role |-> "assistant", content |-> result.value])
            /\ UNCHANGED shown
    /\ pc' = "rerun"
    /\ UNCHANGED <<dom_content, website_url, env, ANALYZER_INITIALIZED, analyzer, event,
                   scraper, analysis, caller, cleaning>>

Init ==
    /\ chat_history = <<>>
    /\ dom_content = <<>>
    /\ website_url = <<>>
    /\ env = OkEnv
    /\ ANALYZER_INITIALIZED = FALSE
    /\ analyzer = NoAnalyzer
    /\ shown = {}
    /\ event = "none"
    /\ pc = "rerun"
    /\ driver = "none"
    /\ scraped = NoScrape
    /\ call = NoCall
    /\ prompt = NoPrompt
    /\ attempt = 0
    /\ requests = <<>>
    /\ sleeps = <<>>
    /\ result = NoResult
    /\ caller = "main"
    /\ cleaning = NoCleaning

Next ==
    \/ \E e \in Envs : ScriptRun(e)
    \/ \E u \in Urls : UrlInput(u)
    \/ LoadRejected
    \/ LoadClick
    \/ \E o \in StartOutcomes : ChromeStart(o)
    \/ \E o \in FetchOutcomes \cup Pages : ScrapePage(o)
    \/ LoadFinish
    \/ \E q \in UserQueries : ChatSubmit(q)
    \/ AnalyzeContent
    \/ \E o \in Outcomes : GenerateContent(o)
    \/ Sleep
    \/ ChatFinish

Spec == Init /\ [][Next]_vars

\* ---------------------------------------------------- clean_body_content

\* Largest number of children of the body element of a cleaned markup.
MaxKids == 2

\* Text nodes: plain, padded, blank, with a blank line inside, and with
\* what was a character reference of a tag or of "<" in the page source.
CleanTexts ==
    {<<"b">>, <<" ", "a", " ">>, <<" ">>, <<"a", "\n", " ", "\n", "b">>, <<"m">>,
     <<"<nav>", "m", "</nav>", "c">>, <<"a", "&lt;", "b">>}
Wrapped ==
    {El(t, <<Text(x)>>) :
        t \in {"b", "nav"}, x \in {<<"b">>, <<"m">>, <<"a", "\n", " ", "\n", "b">>}}
Nested == {El(t, <<Text(<<"a", " ">>), w>>) : t \in {"p", "script"}, w \in Wrapped}
Subtrees == {Text(x) : x \in CleanTexts} \cup Wrapped \cup Nested

\* The markup of a body element with at most MaxKids children, and the
\* empty string.
Bodies ==
    {<<>>} \cup
    {<<El("body", kids)>> : kids \in UNION {[1..n -> Subtrees] : n \in 0..MaxKids}}

\* clean_body_content(body_html)
CleanBody ==
    /\ pc = "clean"
    /\ cleaning' = [cleaning EXCEPT !.text = clean_body_content(cleaning.body_html)]
    /\ pc' = "cleaned"
    /\ UNCHANGED <<session, run, scraper, analysis, caller>>

\* clean_body_content applied to the text it returned
CleanAgain ==
    /\ pc = "cleaned"
    /\ cleaning' = [cleaning EXCEPT !.again = clean_body_content(ParseText(cleaning.text))]
    /\ pc' = "recleaned"
    /\ UNCHANGED <<session, run, scraper, analysis, caller>>

InitClean ==
    /\ chat_history = <<>>
    /\ dom_content = <<>>
    /\ website_url = <<>>
    /\ env = OkEnv
    /\ ANALYZER_INITIALIZED = FALSE
    /\ analyzer = NoAnalyzer
    /\ shown = {}
    /\ event = "none"
    /\ pc = "clean"
    /\ driver = "none"
    /\ scraped = NoScrape
    /\ call = NoCall
    /\ prompt = NoPrompt
    /\ attempt = 0
    /\ requests = <<>>
    /\ sleeps = <<>>
    /\ result = NoResult
    /\ caller = "direct"
    /\ cleaning \in [body_html : Bodies, text : {<<>>}, again : {<<>>}]

SpecClean == InitClean /\ [][CleanBody \/ CleanAgain]_vars

\* ------------------------------------------------------------------ claims
\* The endpoint outcomes as the claims name them.

\* deadline exceeded, service unavailable, an empty or invalid response
\* without a block indication, or any other unexpected fault
IsTransient(o) ==
    \/ o.kind = "raise" /\ o.exc \in {"DeadlineExceeded", "ServiceUnavailable", "ValueError"}
    \/ o.kind = "none"
    \/ o.kind = "response" /\ o.text = <<>> /\ o.block \in {"absent", "none"}

\* quota exhaustion, a block indication on a response without text, or any
\* other Google API error
IsCategorical(o) ==
    \/ o.kind = "raise" /\ o.exc \in {"ResourceExhausted", "InvalidArgument"}
    \/ o.kind = "response" /\ o.text = <<>> /\ o.block = "SAFETY"

IsNonBlankText(o) == o.kind = "response" /\ Strip(o.text) # <<>>

AllTransient(k) == \A i \in 1..k : IsTransient(requests[i].outcome)

\* retry_delay * 2^i for the sleeps i = 0 .. k-1
Backoff(k) == [i \in 1..k |-> analyzer.retry_delay * (2 ^ (i - 1))]

Tagged == ~result.raised /\ StartsWith(result.value, Marker)

\* C1 (as stated): when the first k requests of a call fail transiently,
\* k < max_retries, and request k+1 returns non-blank text, the call returns
\* exactly the text of that response.
C1_ReturnsResponseTextVerbatim ==
    \A k \in 0..MaxRetriesBound :
        ( /\ k < analyzer.max_retries
          /\ Len(requests) = k + 1
          /\ AllTransient(k)
          /\ IsNonBlankText(requests[k + 1].outcome) )
        => /\ pc = "returned"
           /\ result.value = requests[k + 1].outcome.text

\* C1 (amended): for every k < max_retries, after k transient failures the
\* call goes on to request k+1 (having slept k-1 or k times), and when
\* request k+1 returns non-blank text the call has returned that text
\* stripped of surrounding whitespace, with exactly k+1 requests issued and
\* exactly k sleeps of retry_delay * 2^i seconds, i = 0 .. k-1, in between.
C1_RetryThenSuccess ==
    \A k \in 0..MaxRetriesBound :
        /\ ( /\ 1 <= k
             /\ k < analyzer.max_retries
             /\ Len(requests) = k
             /\ AllTransient(k) )
           => \/ pc = "sleep" /\ sleeps = Backoff(k - 1)
              \/ pc = "request" /\ sleeps = Backoff(k)
        /\ ( /\ k < analyzer.max_retries
             /\ Len(requests) = k + 1
             /\ AllTransient(k)
             /\ IsNonBlankText(requests[k + 1].outcome) )
           => /\ pc = "returned"
              /\ ~result.raised
              /\ result.value = Strip(requests[k + 1].outcome.text)
              /\ sleeps = Backoff(k)

\* Two timeouts and then an answer with surrounding whitespace, under the
\* defaults: three requests, sleeps of 5 and 10 seconds.
C1_Witness ==
    /\ pc = "returned"
    /\ analyzer = [max_retries |-> 3, retry_delay |-> 5]
    /\ Len(requests) = 3
    /\ requests[1].outcome = Raise("DeadlineExceeded")
    /\ requests[2].outcome = Raise("DeadlineExceeded")
    /\ requests[3].outcome = Response(<<" ", "a", "\n">>, "none")
    /\ sleeps = <<5, 10>>
    /\ result.value = <<"a">>

\* C2: the attempt on which the endpoint reports a categorical failure is
\* the last one: the call has returned a marker-tagged string, no request
\* follows it, and the only sleeps are those that preceded it.
C2_CategoricalNotRetried ==
    \A i \in 1..Len(requests) :
        IsCategorical(requests[i].outcome)
        => /\ i = Len(requests)
           /\ pc = "returned"
           /\ Tagged
           /\ Len(sleeps) = i - 1

\* A quota error on the first attempt: one request, no sleep.
C2_Witness ==
    /\ pc = "returned"
    /\ Len(requests) = 1
    /\ requests[1].outcome = Raise("ResourceExhausted")
    /\ sleeps = <<>>
    /\ Tagged

\* The call succeeded: its last request returned non-blank text.
Succeeded ==
    /\ requests # <<>>
    /\ IsNonBlankText(requests[Len(requests)].outcome)

\* C3: a returned analyze_content call has raised nothing, and unless its
\* last request returned non-blank text the string it returned begins with
\* the warning marker.
C3_FailuresAreTagged ==
    pc = "returned" => /\ ~result.raised
                       /\ ~Succeeded => StartsWith(result.value, Marker)

\* Retries exhausted: every allowed request failed transiently.
C3_Witness ==
    /\ pc = "returned"
    /\ analyzer.max_retries = 2
    /\ Len(requests) = 2
    /\ AllTransient(2)
    /\ Tagged

\* C4: a call with empty content, or with an empty query, returns a
\* marker-tagged string and issues no request and no sleep; with empty
\* content the string is the "No website content" message, whatever the query.
C4_EmptyArgumentsNoRequest ==
    (pc # "analyze" /\ (call.full_content = <<>> \/ call.query = <<>>))
    => /\ pc = "returned"
       /\ Tagged
       /\ requests = <<>>
       /\ sleeps = <<>>
       /\ call.full_content = <<>>
            => result.value = Msg("Error: No website content loaded or content is empty.")
       /\ call.full_content # <<>>
            => result.value = Msg("Error: Query cannot be empty.")

\* Both arguments empty.
C4_Witness ==
    /\ pc = "returned"
    /\ call.full_content = <<>>
    /\ call.query = <<>>
    /\ result.value = Msg("Error: No website content loaded or content is empty.")
    /\ requests = <<>>

\* C5: the content in the prompt of every request is the first
\* min(len(content), MAX_CONTENT_LENGTH) characters of content, and every
\* request of a call carries the same prompt.
C5_PromptHoldsLeadingContent ==
    \A i \in 1..Len(requests) :
        /\ Len(requests[i].prompt.content) = Min(Len(call.full_content), MAX_CONTENT_LENGTH)
        /\ \A j \in 1..Len(requests[i].prompt.content) :
               requests[i].prompt.content[j] = call.full_content[j]
        /\ requests[i].prompt = requests[1].prompt

\* Content longer than the budget, sent twice.
C5_Witness ==
    /\ Len(call.full_content) > MAX_CONTENT_LENGTH
    /\ Len(requests) = 2
    /\ Len(requests[2].prompt.content) = MAX_CONTENT_LENGTH

\* C6: a request is issued, and the query handler runs, only with non-empty
\* session content and an initialized analyzer; the content of every
\* prompt is the session content cut to at most MAX_CONTENT_LENGTH
\* characters.
C6_RequestsNeedContentAndAnalyzer ==
    /\ (pc \in {"analyze", "request", "sleep", "returned"} \/ requests # <<>>
            \/ event = "query")
       => /\ dom_content # <<>>
          /\ ANALYZER_INITIALIZED
          /\ call.full_content = dom_content
    /\ pc = "widgets" /\ (\E q \in UserQueries : ENABLED ChatSubmit(q))
       => dom_content # <<>> /\ ANALYZER_INITIALIZED
    /\ pc = "request" => Len(prompt.content) <= MAX_CONTENT_LENGTH
    /\ \A i \in 1..Len(requests) :
          /\ Len(requests[i].prompt.content) <= MAX_CONTENT_LENGTH
          /\ requests[i].prompt.content = Slice(dom_content, MAX_CONTENT_LENGTH)

\* A request for a page whose cleaned text exceeds the budget.
C6_Witness ==
    /\ pc = "returned"
    /\ caller = "main"
    /\ Len(dom_content) > MAX_CONTENT_LENGTH
    /\ Len(requests) = 1
    /\ Len(requests[1].prompt.content) = MAX_CONTENT_LENGTH

\* C7: when the query handler has finished, the history ends with the User
\* entry of the query followed by an Assistant entry holding the answer if
\* the endpoint returned answer text, and with the User entry alone if it
\* did not; no Assistant entry holds a marker-tagged result.
C7_AssistantIffSucceeded ==
    (pc = "rerun" /\ event = "query")
    => /\ IF Succeeded
            THEN /\ Len(chat_history) >= 2
                 /\ chat_history[Len(chat_history)] =
                        [role |-> "assistant", content |-> result.value]
                 /\ chat_history[Len(chat_history) - 1] =
                        [role |-> "user", content |-> call.query]
            ELSE /\ Len(chat_history) >= 1
                 /\ chat_history[Len(chat_history)] =
                        [role |-> "user", content |-> call.query]
       /\ \A i \in 1..Len(chat_history) :
            chat_history[i].role = "assistant"
            => ~StartsWith(chat_history[i].content, Marker)

\* C8: from the moment a load with a valid URL clears the session until
\* its handler has finished, the history is empty; the content is empty
\* while the page is fetched and, once the handler has finished, is the
\* cleaned text of the fetched page, or empty if the scrape raised; after
\* a load that left the content empty the chat input is disabled.
C8_LoadReplacesContentAndHistory ==
    /\ pc \in {"chrome", "get", "scraped"}
       => chat_history = <<>> /\ dom_content = <<>>
    /\ (pc = "rerun" /\ event = "load" /\ ValidUrl(website_url))
       => /\ chat_history = <<>>
          /\ dom_content = IF scraped.raised THEN <<>>
                           ELSE clean_body_content(extract_body_content(scraped.html))
          /\ (scraped.raised \/ dom_content = <<>>)
             => \A i \in BOOLEAN : ChatInputDisabled(i, dom_content)

\* A load whose scrape raised has finished.
C8_Witness ==
    /\ pc = "rerun"
    /\ event = "load"
    /\ ValidUrl(website_url)
    /\ scraped.raised
    /\ dom_content = <<>>
    /\ chat_history = <<>>

\* C9: when scrape_website has returned or raised, no browser it launched
\* is still running.
C9_LaunchedBrowserIsQuit ==
    pc = "scraped" => driver # "running"

\* C10: ContentAnalyzer construction fails, with the error of the first
\* failing check in the order host name, credential, client handle, and
\* yields no analyzer whenever one of the three fails; in a run whose
\* construction failed the error is displayed, no load and no query
\* handler runs, no browser is launched and no request is issued.
C10_FailedInitDisablesLoadAndQuery ==
    /\ pc # "rerun" =>
         /\ ~env.dns => Notice("error", "Fatal Error: Could not initialize the AI Analyzer",
                               "RuntimeError: DNS resolution failed") \in shown
         /\ (env.dns /\ env.key # "set")
              => Notice("error", "Fatal Error: Could not initialize the AI Analyzer",
                        "ValueError: GOOGLE_API_KEY missing") \in shown
         /\ (env.dns /\ env.key = "set" /\ ~env.model)
              => Notice("error", "Fatal Error: Could not initialize the AI Analyzer",
                        "RuntimeError: Model init failed") \in shown
         /\ (~env.dns \/ env.key # "set" \/ ~env.model)
              => ~ANALYZER_INITIALIZED /\ analyzer = NoAnalyzer
    /\ (pc # "rerun" /\ ~ANALYZER_INITIALIZED)
       => /\ pc = "widgets"
          /\ event = "none"
          /\ driver = "none"
          /\ requests = <<>>
          /\ ~ENABLED LoadClick
          /\ ~ENABLED LoadRejected
          /\ \A q \in UserQueries : ~ENABLED ChatSubmit(q)

\* Content is loaded, and the run that follows finds neither the host name
\* nor the credential.
C10_Witness ==
    /\ pc = "widgets"
    /\ ~env.dns
    /\ env.key = "absent"
    /\ ~ANALYZER_INITIALIZED
    /\ dom_content # <<>>
    /\ ValidUrl(website_url)

\* The text nodes of a forest that lie in no denylisted element (hidden
\* FALSE), or in one (hidden TRUE), in document order.
RECURSIVE TextsOf(_, _, _)
TextsOf(forest, inside, hidden) ==
    IF forest = <<>> THEN <<>>
    ELSE LET n == Head(forest)
             in == inside \/ n.tag \in Denylist
         IN  (IF n.tag = "#text"
                THEN (IF inside = hidden THEN <<n.text>> ELSE <<>>)
                ELSE TextsOf(n.kids, in, hidden))
             \o TextsOf(Tail(forest), inside, hidden)

Chars(s) == {s[i] : i \in 1..Len(s)}
CharsOfAll(texts) == UNION {Chars(texts[i]) : i \in 1..Len(texts)}
IsBlank(s) == \A i \in 1..Len(s) : s[i] \in Whitespace

\* The lines of a string that are not blank, in order.
RECURSIVE LinesFrom(_, _)
LinesFrom(s, line) ==
    IF s = <<>> THEN (IF IsBlank(line) THEN <<>> ELSE <<line>>)
    ELSE IF Head(s) = "\n"
        THEN (IF IsBlank(line) THEN <<>> ELSE <<line>>) \o LinesFrom(Tail(s), <<>>)
    ELSE LinesFrom(Tail(s), Append(line, Head(s)))

RECURSIVE LinesOfAll(_)
LinesOfAll(texts) ==
    IF texts = <<>> THEN <<>>
    ELSE LinesFrom(Strip(Head(texts)), <<>>) \o LinesOfAll(Tail(texts))

\* C11: the lines of the output of clean_body_content are the non-blank
\* lines of the trimmed texts of the text nodes that lie in no denylisted
\* element, in document order; no line of the output is blank, and a
\* non-whitespace character that occurs only inside denylisted elements
\* does not occur in the output.
C11_CleanKeepsVisibleTextOnly ==
    pc # "clean"
    => LET visible == TextsOf(cleaning.body_html, FALSE, FALSE)
           hidden == TextsOf(cleaning.body_html, FALSE, TRUE)
       IN  /\ LinesFrom(cleaning.text, <<>>) = LinesOfAll(visible)
           /\ SplitLines(cleaning.text) = LinesOfAll(visible)
           /\ \A c \in (CharsOfAll(hidden) \ CharsOfAll(visible)) \ Whitespace :
                  c \notin Chars(cleaning.text)

\* <body><nav>m</nav><p>a <b>b</b></p></body> yields "a\nb".
C11_Witness ==
    /\ pc = "cleaned"
    /\ cleaning.body_html =
         <<El("body", <<El("nav", <<Text(<<"m">>)>>),
                        El("p", <<Text(<<"a", " ">>), El("b", <<Text(<<"b">>)>>)>>)>>)>>
    /\ cleaning.text = <<"a", "\n", "b">>

RECURSIVE HasDenylisted(_)
HasDenylisted(forest) ==
    IF forest = <<>> THEN FALSE
    ELSE \/ Head(forest).tag \in Denylist
         \/ HasDenylisted(Head(forest).kids)
         \/ HasDenylisted(Tail(forest))

IsMarkup(c) == c \in DOMAIN OpenTags \cup DOMAIN CloseTags \cup DOMAIN CharRefs

\* C12 (as stated): for every markup without denylisted tags, cleaning the
\* cleaned text again yields the cleaned text.
C12_Idempotent ==
    (pc = "recleaned" /\ ~HasDenylisted(cleaning.body_html))
    => cleaning.again = cleaning.text

\* C12 (amended): for every markup without denylisted tags whose cleaned
\* text holds no tag and no character reference, cleaning the cleaned
\* text again yields the cleaned text.
C12_IdempotentOnPlainText ==
    ( /\ pc = "recleaned"
      /\ ~HasDenylisted(cleaning.body_html)
      /\ \A c \in Chars(cleaning.text) : ~IsMarkup(c) )
    => cleaning.again = cleaning.text

\* <body><b>a\n \nb</b> a </body> cleaned twice.
C12_Witness ==
    /\ pc = "recleaned"
    /\ cleaning.body_html =
         <<El("body", <<El("b", <<Text(<<"a", "\n", " ", "\n", "b">>)>>),
                        Text(<<" ", "a", " ">>)>>)>>
    /\ cleaning.text = <<"a", "\n", "b", "\n", "a">>
    /\ cleaning.again = cleaning.text

\* The analysis failed message of analyze_content.
AnalysisFailed == Msg("Analysis failed after multiple retries or returned no relevant content.")

\* C13: the sleeps of a call are retry_delay * 2^i seconds for i = 0, 1, ...
\* in this order, each twice the one before; a transient failure on an
\* attempt that is not the last allowed one is followed by exactly one
\* sleep and then the next attempt; nothing is slept after the last
\* allowed attempt or after an attempt that returns, so a call sleeps at
\* most max_retries - 1 times.
C13_BackoffSleeps ==
    /\ sleeps = Backoff(Len(sleeps))
    /\ \A i \in 1..(Len(sleeps) - 1) : sleeps[i + 1] = 2 * sleeps[i] /\ sleeps[i + 1] > sleeps[i]
    /\ analyzer.max_retries >= 1 => Len(sleeps) <= analyzer.max_retries - 1
    /\ analyzer.max_retries = 0 => sleeps = <<>>
    /\ \A i \in 1..Len(requests) :
          IF IsTransient(requests[i].outcome) /\ i < analyzer.max_retries
            THEN \/ i = Len(requests) /\ pc = "sleep" /\ Len(sleeps) = i - 1
                 \/ i = Len(requests) /\ pc = "request" /\ Len(sleeps) = i
                 \/ i < Len(requests) /\ Len(sleeps) >= i
            ELSE i = Len(requests) /\ pc = "returned" /\ Len(sleeps) = i - 1
    /\ pc = "request" => Len(sleeps) = Len(requests)
    /\ pc = "returned" /\ requests # <<>> => Len(sleeps) = Len(requests) - 1

\* Three transient failures under the defaults: sleeps of 5 and 10 seconds,
\* none after the third attempt.
C13_Witness ==
    /\ pc = "returned"
    /\ analyzer = [max_retries |-> DEFAULT_MAX_RETRIES, retry_delay |-> DEFAULT_RETRY_DELAY]
    /\ Len(requests) = 3
    /\ AllTransient(3)
    /\ sleeps = <<5, 10>>

\* The steps a call may still take: two for every request not yet issued.
StepsLeft ==
    IF pc = "returned" THEN 0
    ELSE IF pc = "analyze" THEN 2 * analyzer.max_retries + 2
    ELSE IF pc = "sleep" THEN 2 * (analyzer.max_retries - Len(requests)) + 2
    ELSE 2 * (analyzer.max_retries - Len(requests)) + 1

\* C14: a call never issues more than max_retries requests, every step
\* of it uses up one of a bounded number of steps and a call that has not
\* returned can take a step, and a returned call has returned a string;
\* when every request failed transiently the call returns after exactly
\* max_retries requests, with the analysis failed message (none issued
\* when max_retries is 0).
C14_TerminatesWithinMaxRetries ==
    /\ [](/\ Len(requests) <= analyzer.max_retries
          /\ StepsLeft >= 0
          /\ pc # "returned" => ENABLED Analyze
          /\ pc = "returned" => ~result.raised
          /\ ( /\ pc = "returned"
               /\ call.full_content # <<>> /\ call.query # <<>>
               /\ AllTransient(Len(requests)) )
             => /\ Len(requests) = analyzer.max_retries
                /\ result.value = AnalysisFailed
                /\ Tagged
          /\ (Len(requests) = analyzer.max_retries /\ AllTransient(Len(requests))
              /\ pc \notin {"analyze"})
             => pc = "returned")
    /\ [][StepsLeft' < StepsLeft]_vars

\* max_retries 0 with content and query: no request, the analysis failed
\* message.
C14_Witness ==
    /\ pc = "returned"
    /\ analyzer.max_retries = 0
    /\ call.full_content # <<>>
    /\ call.query # <<>>
    /\ requests = <<>>
    /\ result.value = AnalysisFailed

\* C15 (as stated): once a request has returned non-empty text the call
\* has returned that text stripped of surrounding whitespace, as an answer
\* and not as a failure message, and no request or sleep follows.
C15_NonEmptyTextIsTheAnswer ==
    \A i \in 1..Len(requests) :
        (requests[i].outcome.kind = "response" /\ requests[i].outcome.text # <<>>)
        => /\ i = Len(requests)
           /\ pc = "returned"
           /\ Len(sleeps) = i - 1
           /\ ~result.raised
           /\ result.value = Strip(requests[i].outcome.text)

\* C16 (as stated): the entries of the history alternate, the first a
\* user entry, the second an assistant entry, and so on.
C16_HistoryAlternates ==
    \A i \in 1..Len(chat_history) :
        chat_history[i].role = (IF i % 2 = 1 THEN "user" ELSE "assistant")

\* The context lines of the completed pairs of a history: a user entry
\* and the assistant entry that follows it, each under its own role.
RECURSIVE PairLines(_)
PairLines(history) ==
    IF Len(history) < 2 THEN <<>>
    ELSE IF history[1].role = "user" /\ history[2].role = "assistant"
        THEN <<[label |-> "User", msg |-> history[1].content],
               [label |-> "Assistant", msg |-> history[2].content]>>
             \o PairLines(SubSeq(history, 3, Len(history)))
    ELSE PairLines(Tail(history))

LastTwoPairs(history) ==
    LET lines == PairLines(SubSeq(history, 1, Len(history) - 1))
    IN  IF Len(lines) > 4 THEN SubSeq(lines, Len(lines) - 3, Len(lines)) ELSE lines

\* C17 (as stated): the context of the prompt of a query holds the last
\* two completed pairs that precede the query in the history, in the order
\* of the history, each text under the role of its entry.
C17_ContextIsLastTwoPairs ==
    (caller = "main" /\ pc \in {"request", "sleep", "returned"} /\ prompt # NoPrompt)
    => prompt.context = LastTwoPairs(chat_history)

\* A URL the load handler is to reject, as the claim words it.
IsRejectedUrl(url) == url = <<>> \/ Head(url) \notin {"http://", "https://"}

Warnings ==
    {Notice("warning", "Please enter a URL.", ""),
     Notice("warning", "Please enter a valid URL starting with http:// or https://", "")}

\* C18: a press of the load button while the URL is empty or does not
\* begin with http:// or https:// leaves content and history as they
\* were, enters no scrape, and displays a warning and nothing else.
C18_RejectedLoadChangesNothing ==
    [][(pc = "widgets" /\ event' = "load" /\ IsRejectedUrl(website_url))
       => /\ dom_content' = dom_content
          /\ chat_history' = chat_history
          /\ website_url' = website_url
          /\ pc' = "rerun"
          /\ driver' = driver
          /\ scraped' = scraped
          /\ requests' = requests
          /\ (shown' \ shown) \subseteq Warnings
          /\ shown' \cap Warnings # {}]_vars

\* A load of ftp://a rejected while content and history are there.
C18_Witness ==
    /\ pc = "rerun"
    /\ event = "load"
    /\ website_url = <<"ftp://", "a">>
    /\ dom_content # <<>>
    /\ chat_history # <<>>
    /\ shown \cap Warnings # {}
    /\ driver = "none"

\* C19 (as stated): as long as the content stays what a load made it,
\* the url of the session stays the URL of that load.
C19_UrlIsWhereContentCameFrom ==
    [][(dom_content # <<>> /\ dom_content' = dom_content) => website_url' = website_url]_vars

====
